---- MODULE Spec2Model ----
(***************************************************************************)
(* Model of static/js/enhanced_tracking.js: the UltraAccuracy acquisition  *)
(* of LocationTracker, the alert and trail bookkeeping of                  *)
(* EnhancedTrackingFeatures, and the LocationTracker session controller.   *)
(* Each part has its own specification (SpecUltra, SpecAlerts, SpecTrails, *)
(* SpecTracker); Spec is their interleaving.                               *)
(***************************************************************************)
EXTENDS Integers, Sequences, FiniteSets, TLC

(***************************************************************************)
(* State.                                                                  *)
(***************************************************************************)

\* getCurrentLocationUltraAccuracy: the promise and the closure of one call.
VARIABLES
    uPhase,        \* "idle" | "pending" | "resolved" | "rejected": the promise
    uValue,        \* what the promise settled with: a position, an error, or null
    attempts,      \* let attempts
    bestPosition,  \* let bestPosition
    uRequest,      \* number of getCurrentPosition requests in flight
    uTimers,       \* delays of the retry timers that are pending
    uSamples,      \* history: the samples the success callback received, in order
    uRequests,     \* history: number of getCurrentPosition requests issued
    uDelays,       \* history: the delays of the retry timers scheduled so far
    uSettles       \* history: number of resolve / reject calls

varsUltra == <<uPhase, uValue, attempts, bestPosition, uRequest, uTimers,
               uSamples, uRequests, uDelays, uSettles>>

\* EnhancedTrackingFeatures: the alert system and its page elements.
VARIABLES
    alerts,                  \* this.alerts
    alertsToggleDisplay,     \* #alerts-toggle style.display
    alertsToggleText,        \* #alerts-toggle textContent
    alertsToggleAnimation,   \* #alerts-toggle style.animation
    alertsListHTML,          \* #alerts-list innerHTML: the alerts rendered, each with its x button
    alertsContainerDisplay,  \* #alerts-container style.display
    pulseTimer,              \* some setTimeout(() => btn.style.animation = '', 3000) is pending
    clock,                   \* the wall clock
    aLastOp                  \* history: the operation that led to this state

varsAlerts == <<alerts, alertsToggleDisplay, alertsToggleText, alertsToggleAnimation,
                alertsListHTML, alertsContainerDisplay, pulseTimer, clock, aLastOp>>

\* EnhancedTrackingFeatures: the route trails.
VARIABLES
    previousPositions,  \* this.previousPositions: auditor id -> stored trail
    routes,             \* this.routes: auditor id -> the polyline drawn last, or null
    mapPolylines,       \* the polylines attached to dashboard.map
    appended,           \* history: every point pushed on each trail, in order
    tLastOp             \* history: the operation that led to this state

varsTrails == <<previousPositions, routes, mapPolylines, appended, tLastOp>>

\* LocationTracker: the controller, the page elements it writes, the platform
\* and the calls that are suspended at an await.
VARIABLES
    watchId,          \* this.watchId
    isTracking,       \* this.isTracking
    sessionId,        \* this.sessionId
    lastUpdate,       \* this.lastUpdate
    locationHistory,  \* this.locationHistory
    startBtnDisplay,  \* #start-tracking-btn style.display
    stopBtnDisplay,   \* #stop-tracking-btn style.display
    statusText,       \* #tracking-status textContent
    locationDisplay,  \* what updateLocationDisplay rendered last
    message,          \* #tracking-message: text, type and style.display
    messageTimer,     \* some 5 s timer hiding #tracking-message is pending
    watches,          \* navigator.geolocation: the watch ids that are registered
    nextWatchId,      \* navigator.geolocation: the id the next watchPosition returns
    nextSessionId,    \* session endpoint: the number of the next session it opens
    startCalls,       \* startTracking calls: where each is suspended, and its position
    stopCalls,        \* stopTracking calls suspended at await stopTrackingSession()
    updateCalls,      \* onLocationUpdate calls suspended at await sendLocationUpdate()
    lastReport,       \* body of the latest POST /api/location/update
    accepted,         \* history: the watch samples onLocationUpdate stored, in order
    stopDuringStart,  \* history: stopTracking was called while a startTracking call was in progress
    kLastOp           \* history: the operation that led to this state

varsTracker == <<watchId, isTracking, sessionId, lastUpdate, locationHistory,
                 startBtnDisplay, stopBtnDisplay, statusText,
                 locationDisplay, message, messageTimer, watches, nextWatchId,
                 nextSessionId, startCalls, stopCalls, updateCalls, lastReport,
                 accepted, stopDuringStart, kLastOp>>

\* The variables of the tracker that SetTrackerState assigns.
varsController == <<watchId, isTracking, sessionId, lastUpdate, locationHistory,
                    startBtnDisplay, stopBtnDisplay, statusText,
                    locationDisplay, message, messageTimer, watches, nextWatchId,
                    lastReport>>

\* The browser of the page.
VARIABLES
    geolocation       \* navigator.geolocation is present

varsPlatform == <<geolocation>>

vars == <<varsUltra, varsAlerts, varsTrails, varsTracker, varsPlatform>>

\* What the operations of one part leave alone.
notUltra == <<varsAlerts, varsTrails, varsTracker, varsPlatform>>
notAlerts == <<varsUltra, varsTrails, varsTracker, varsPlatform>>
notTrails == <<varsUltra, varsAlerts, varsTracker, varsPlatform>>
notTracker == <<varsUltra, varsAlerts, varsTrails, varsPlatform>>

(***************************************************************************)
(* Values shared by the parts.                                             *)
(***************************************************************************)

\* JavaScript null / undefined for an object-valued slot.
null == [null |-> TRUE]

Last(s) == s[Len(s)]

Range(s) == {s[i] : i \in 1..Len(s)}

\* Geolocation error codes (GeolocationPositionError).
PERMISSION_DENIED == 1
POSITION_UNAVAILABLE == 2
TIMEOUT == 3
ErrorCodes == {PERMISSION_DENIED, POSITION_UNAVAILABLE, TIMEOUT}

(***************************************************************************)
(* Part 1. LocationTracker.getCurrentLocationUltraAccuracy                 *)
(***************************************************************************)

\* const maxAttempts = 3
maxAttempts == 3

\* position.coords.accuracy <= 20
goodAccuracy == 20

\* setTimeout(tryGetLocation, 2000)
retryDelayMs == 2000

\* Accuracy radii (metres) the platform may report in the model.
Accuracies == {15, 20, 21, 80, 100, 250, 280, 300}

\* A position delivered by attempt n with accuracy radius a.
Position(a, n) == [accuracy |-> a, fix |-> n]

\* Mutant: resolve and reject have no effect.
Settle_Dropped(phase, v) == UNCHANGED <<uPhase, uValue>>

\* resolve(v) / reject(e) of the promise: only the first settlement counts.
Settle(phase, v) ==
    IF uPhase = "pending"
    THEN uPhase' = phase /\ uValue' = v
    ELSE UNCHANGED <<uPhase, uValue>>

\* bestPosition || position
OrElse(a, b) == IF a # null THEN a ELSE b

\* !bestPosition || position.coords.accuracy < bestPosition.coords.accuracy
IsBetter(position, best) ==
    best = null \/ position.accuracy < best.accuracy

\* Mutant: the attempt budget is not checked.
AcceptNow_NoBudget(position, n) == position.accuracy <= goodAccuracy

\* position.coords.accuracy <= 20 || attempts >= maxAttempts
AcceptNow(position, n) ==
    position.accuracy <= goodAccuracy \/ n >= maxAttempts

UltraInit ==
    /\ uPhase = "idle"
    /\ uValue = null
    /\ attempts = 0
    /\ bestPosition = null
    /\ uRequest = 0
    /\ uTimers = <<>>
    /\ uSamples = <<>>
    /\ uRequests = 0
    /\ uDelays = <<>>
    /\ uSettles = 0

\* What the promise is rejected with when navigator.geolocation is undefined:
\* navigator.geolocation.getCurrentPosition throws inside the executor.
TypeError == [thrown |-> "TypeError"]

\* getCurrentLocationUltraAccuracy(): the promise executor runs and calls
\* tryGetLocation() once. Without navigator.geolocation that call throws
\* before any request is issued and the promise is rejected with the error,
\* resolve and reject never called.
UltraCall ==
    /\ uPhase = "idle"
    /\ attempts' = 0
    /\ bestPosition' = null
    /\ IF geolocation
       THEN /\ uPhase' = "pending"
            /\ uRequest' = uRequest + 1
            /\ uRequests' = uRequests + 1
            /\ UNCHANGED uValue
       ELSE /\ uPhase' = "rejected"
            /\ uValue' = TypeError
            /\ UNCHANGED <<uRequest, uRequests>>
    /\ UNCHANGED <<uTimers, uSamples, uDelays, uSettles>>
    /\ UNCHANGED notUltra

\* The success callback of a request.
UltraSuccess ==
    /\ uRequest > 0
    /\ \E a \in Accuracies :
          LET position == Position(a, attempts + 1) IN
          /\ attempts' = attempts + 1
          /\ uRequest' = uRequest - 1
          /\ uSamples' = Append(uSamples, position)
          /\ IF AcceptNow(position, attempts + 1)
             THEN /\ Settle("resolved", OrElse(bestPosition, position))
                  /\ uSettles' = uSettles + 1
                  /\ UNCHANGED <<bestPosition, uTimers, uDelays>>
             ELSE /\ bestPosition' = IF IsBetter(position, bestPosition)
                                     THEN position ELSE bestPosition
                  /\ uTimers' = Append(uTimers, retryDelayMs)
                  /\ uDelays' = Append(uDelays, retryDelayMs)
                  /\ UNCHANGED <<uPhase, uValue, uSettles>>
    /\ UNCHANGED uRequests
    /\ UNCHANGED notUltra

\* The error callback of a request.
UltraError ==
    /\ uRequest > 0
    /\ \E code \in ErrorCodes :
          IF bestPosition # null
          THEN Settle("resolved", bestPosition)
          ELSE Settle("rejected", [code |-> code])
    /\ uSettles' = uSettles + 1
    /\ uRequest' = uRequest - 1
    /\ UNCHANGED <<attempts, bestPosition, uTimers, uSamples, uRequests, uDelays>>
    /\ UNCHANGED notUltra

\* The retry timer fires: tryGetLocation() issues the next request.
UltraRetry ==
    /\ uTimers # <<>>
    /\ uTimers' = Tail(uTimers)
    /\ uRequest' = uRequest + 1
    /\ uRequests' = uRequests + 1
    /\ UNCHANGED <<uPhase, uValue, attempts, bestPosition, uSamples, uDelays, uSettles>>
    /\ UNCHANGED notUltra

UltraNext == UltraCall \/ UltraSuccess \/ UltraError \/ UltraRetry

(***************************************************************************)
(* Claims about the UltraAccuracy acquisition.                             *)
(***************************************************************************)

Accuracy(s) == [i \in 1..Len(s) |-> s[i].accuracy]

MinAccuracy(s) == CHOOSE m \in Range(Accuracy(s)) : \A x \in Range(Accuracy(s)) : m <= x

\* C1: whenever an attempt delivers a sample whose accuracy radius is <= 20 m
\* the acquisition resolves with that very sample, whatever the earlier
\* attempts delivered; for the accuracies <<300, 80, 15>> it resolves with
\* the 15 m sample after 3 attempts and two 2 s delays.
C1_ResolvesWithAccurateSample ==
    /\ (uSamples # <<>> /\ Last(uSamples).accuracy <= goodAccuracy)
          => (uPhase = "resolved" /\ uValue = Last(uSamples))
    /\ Accuracy(uSamples) = <<300, 80, 15>>
          => /\ uPhase = "resolved"
             /\ uValue = Position(15, 3)
             /\ attempts = 3
             /\ uDelays = <<retryDelayMs, retryDelayMs>>

\* C2: when all 3 attempts deliver a sample and none is <= 20 m, the
\* acquisition resolves with the sample of lowest accuracy radius among the
\* three delivered samples.
C2_ResolvesWithBestOfThree ==
    (Len(uSamples) = maxAttempts /\ \A i \in 1..Len(uSamples) : uSamples[i].accuracy > goodAccuracy)
        => (uPhase = "resolved" /\ uValue.accuracy = MinAccuracy(uSamples))

\* C16: a Timeout of an attempt never rejects the acquisition while fewer
\* than 3 requests have been issued: the acquisition goes on to the next one.
C16_TimeoutIsNeverFatal ==
    (uPhase = "rejected" /\ uValue = [code |-> TIMEOUT]) => uRequests >= maxAttempts

\* The promise has resolved or rejected.
Settled == uPhase \in {"resolved", "rejected"}

\* C21: one acquisition issues at most 3 getCurrentPosition requests, never
\* has two of them in flight at once, and once it has resolved or rejected it
\* has no request in flight, no retry timer pending and issues no request.
C21_AtMostThreeSequentialRequests ==
    /\ [](/\ uRequests <= maxAttempts
          /\ uRequest <= 1
          /\ Settled => (uRequest = 0 /\ uTimers = <<>>))
    /\ [][Settled => uRequests' = uRequests]_vars

\* The acquisition settled with its third request, after two retries.
C21_Witness ==
    /\ Settled
    /\ uRequests = maxAttempts
    /\ Len(uDelays) = maxAttempts - 1

\* C22: when every request ends in one of its callbacks and every retry
\* timer fires, a pending acquisition eventually resolves or rejects, and
\* resolve / reject is called once only.
C22_AcquisitionTerminates ==
    /\ (uPhase = "pending") ~> Settled
    /\ [](uSettles <= 1)
    /\ [](Settled => uSettles = 1)

\* The acquisition settled with one call of resolve after a retry.
C22_Witness ==
    /\ uPhase = "resolved"
    /\ uSettles = 1
    /\ uRequests > 1

(***************************************************************************)
(* Part 2. EnhancedTrackingFeatures: the alert system                      *)
(***************************************************************************)

\* Entities (auditor ids) of the dashboard feed.
MaxEntities == 2
Entities == 1..MaxEntities

\* Longest feed snapshot passed to one call.
MaxSnapshot == 2

\* Latest reading of the wall clock (new Date()).
MaxClock == 1

\* auditor.accuracy > 500
lowAccuracyLimit == 500

StatusClasses == {"online", "recent", "stale", "offline"}

\* Accuracy values of the feed: at the limit and just above it.
FeedAccuracies == {lowAccuracyLimit, lowAccuracyLimit + 1}

\* The fields of a feed record that checkForAlerts reads.
AlertAuditors == [id : Entities, status_class : StatusClasses, accuracy : FeedAccuracies]

RECURSIVE SeqsUpTo(_, _)
SeqsUpTo(S, n) ==
    IF n = 0 THEN {<<>>}
    ELSE LET shorter == SeqsUpTo(S, n - 1) IN
         shorter \cup {Append(q, x) : q \in {r \in shorter : Len(r) = n - 1}, x \in S}

AlertSnapshots == SeqsUpTo(AlertAuditors, MaxSnapshot)

\* `offline_${auditor.id}`, `accuracy_${auditor.id}`
AlertId(kind, id) == <<kind, id>>

\* The alert object literals of checkForAlerts.
OfflineAlert(auditor, now) ==
    [id |-> AlertId("offline", auditor.id), type |-> "warning",
     title |-> "Auditor Offline", timestamp |-> now]

AccuracyAlert(auditor, now) ==
    [id |-> AlertId("accuracy", auditor.id), type |-> "warning",
     title |-> "Low Location Accuracy", timestamp |-> now]

\* The fields of the object and of the page that the alert methods touch.
AlertState ==
    [alerts |-> alerts, toggleDisplay |-> alertsToggleDisplay,
     toggleText |-> alertsToggleText, toggleAnimation |-> alertsToggleAnimation,
     listHTML |-> alertsListHTML, pulseTimer |-> pulseTimer]

\* this.alerts.length > 9 ? '9+' : this.alerts.length.toString()
BadgeText(n) == IF n > 9 THEN "9+" ELSE ToString(n)

updateAlertsDisplay(T) ==
    IF Len(T.alerts) = 0
    THEN [T EXCEPT !.toggleDisplay = "none"]
    ELSE [T EXCEPT !.toggleText = BadgeText(Len(T.alerts)), !.listHTML = T.alerts]

addAlert(T, alert) ==
    [T EXCEPT !.alerts = Append(@, alert),
              !.toggleDisplay = "block",
              !.toggleAnimation = "pulse 1s infinite",
              !.pulseTimer = TRUE]

\* Mutant: the duplicate check never finds the alert.
hasAlert_NeverFound(T, alertId) == FALSE

hasAlert(T, alertId) == \E i \in 1..Len(T.alerts) : T.alerts[i].id = alertId

\* Mutant: the filter compares the kind of alert only, not the entity.
KeepOthers_ByKind(list, alertId) == SelectSeq(list, LAMBDA alert : alert.id[1] # alertId[1])

KeepOthers(list, alertId) == SelectSeq(list, LAMBDA alert : alert.id # alertId)

removeAlert(T, alertId) ==
    updateAlertsDisplay([T EXCEPT !.alerts = KeepOthers(@, alertId)])

\* Mutant: a recent auditor clears its alerts as well.
ComesBackOnline_OrRecent(auditor) == auditor.status_class \in {"online", "recent"}

\* auditor.status_class === 'online'
ComesBackOnline(auditor) == auditor.status_class = "online"

\* Mutant: an accuracy of exactly 500 counts as low.
HasLowAccuracy_AtLimit(auditor) == auditor.accuracy >= lowAccuracyLimit

\* auditor.accuracy > 500
HasLowAccuracy(auditor) == auditor.accuracy > lowAccuracyLimit

\* Mutant: an offline auditor whose offline alert is active gets it cleared.
CheckAuditor_Toggles(T, auditor, now) ==
    IF auditor.status_class = "offline"
    THEN IF hasAlert(T, AlertId("offline", auditor.id))
         THEN removeAlert(T, AlertId("offline", auditor.id))
         ELSE addAlert(T, OfflineAlert(auditor, now))
    ELSE T

\* The body of auditors.forEach in checkForAlerts.
CheckAuditor(T, auditor, now) ==
    LET T1 == IF auditor.status_class = "offline" /\ ~hasAlert(T, AlertId("offline", auditor.id))
              THEN addAlert(T, OfflineAlert(auditor, now)) ELSE T
        T2 == IF HasLowAccuracy(auditor) /\ ~hasAlert(T1, AlertId("accuracy", auditor.id))
              THEN addAlert(T1, AccuracyAlert(auditor, now)) ELSE T1
    IN  IF ComesBackOnline(auditor)
        THEN removeAlert(removeAlert(T2, AlertId("offline", auditor.id)),
                         AlertId("accuracy", auditor.id))
        ELSE T2

RECURSIVE ForEachAuditor(_, _, _)
ForEachAuditor(T, auditors, now) ==
    IF auditors = <<>> THEN T
    ELSE ForEachAuditor(CheckAuditor(T, Head(auditors), now), Tail(auditors), now)

checkForAlerts(T, auditors, now) == updateAlertsDisplay(ForEachAuditor(T, auditors, now))

\* Entities with a record in the snapshot, and those shown online by it.
InSnapshot(auditors) == {auditors[i].id : i \in 1..Len(auditors)}

OnlineIn(auditors) ==
    {e \in InSnapshot(auditors) :
        \A i \in 1..Len(auditors) : auditors[i].id = e => auditors[i].status_class = "online"}

SomeOnlineIn(auditors) ==
    {auditors[i].id : i \in {j \in 1..Len(auditors) : auditors[j].status_class = "online"}}

\* The ids of the alerts of a list.
AlertIds(list) == {list[i].id : i \in 1..Len(list)}

SetAlertState(T) ==
    /\ alerts' = T.alerts
    /\ alertsToggleDisplay' = T.toggleDisplay
    /\ alertsToggleText' = T.toggleText
    /\ alertsToggleAnimation' = T.toggleAnimation
    /\ alertsListHTML' = T.listHTML
    /\ pulseTimer' = T.pulseTimer

AlertsInit ==
    /\ alerts = <<>>
    /\ alertsToggleDisplay = "none"
    /\ alertsToggleText = "bell"
    /\ alertsToggleAnimation = ""
    /\ alertsListHTML = <<>>
    /\ alertsContainerDisplay = "none"
    /\ pulseTimer = FALSE
    /\ clock = 0
    /\ aLastOp = [op |-> "constructor"]

\* The dashboard poll passes a feed snapshot to checkForAlerts.
CheckForAlerts ==
    \E auditors \in AlertSnapshots :
        LET T == checkForAlerts(AlertState, auditors, clock) IN
        /\ SetAlertState(T)
        /\ aLastOp' = [op |-> "checkForAlerts", online |-> OnlineIn(auditors),
                       someOnline |-> SomeOnlineIn(auditors),
                       cleared |-> AlertIds(alerts) \ AlertIds(T.alerts)]
        /\ UNCHANGED <<alertsContainerDisplay, clock>>
        /\ UNCHANGED notAlerts

\* A click on the x button of a rendered alert: enhancedFeatures.removeAlert(id).
RemoveAlertClick ==
    /\ alertsContainerDisplay = "block"
    /\ \E i \in 1..Len(alertsListHTML) :
          /\ SetAlertState(removeAlert(AlertState, alertsListHTML[i].id))
          /\ aLastOp' = [op |-> "removeAlert", id |-> alertsListHTML[i].id,
                         cleared |-> {alertsListHTML[i].id} \cap AlertIds(alerts)]
    /\ UNCHANGED <<alertsContainerDisplay, clock>>
    /\ UNCHANGED notAlerts

\* A click on #alerts-toggle shows or hides the container.
AlertsToggleClick ==
    /\ alertsToggleDisplay = "block"
    /\ alertsContainerDisplay' = IF alertsContainerDisplay = "block" THEN "none" ELSE "block"
    /\ aLastOp' = [op |-> "toggle"]
    /\ UNCHANGED <<alerts, alertsToggleDisplay, alertsToggleText, alertsToggleAnimation,
                   alertsListHTML, pulseTimer, clock>>
    /\ UNCHANGED notAlerts

\* A 3 s timer of addAlert fires; others set by later addAlert calls may remain.
PulseTimeout ==
    /\ pulseTimer
    /\ pulseTimer' \in BOOLEAN
    /\ alertsToggleAnimation' = ""
    /\ aLastOp' = [op |-> "timer"]
    /\ UNCHANGED <<alerts, alertsToggleDisplay, alertsToggleText, alertsListHTML,
                   alertsContainerDisplay, clock>>
    /\ UNCHANGED notAlerts

\* Time passes.
Tick ==
    /\ clock < MaxClock
    /\ clock' = clock + 1
    /\ aLastOp' = [op |-> "tick"]
    /\ UNCHANGED <<alerts, alertsToggleDisplay, alertsToggleText, alertsToggleAnimation,
                   alertsListHTML, alertsContainerDisplay, pulseTimer>>
    /\ UNCHANGED notAlerts

AlertsNext == CheckForAlerts \/ RemoveAlertClick \/ AlertsToggleClick \/ PulseTimeout \/ Tick

(***************************************************************************)
(* Claims about the alert system.                                          *)
(***************************************************************************)

\* The entity an alert id belongs to.
EntityOf(alertId) == alertId[2]

\* C3: under every sequence of checkForAlerts calls with arbitrary snapshots,
\* interleaved with removeAlert calls, no two active alerts have the same id:
\* at most one alert per (kind, entity) is active.
C3_NoDuplicateAlerts ==
    \A i, j \in 1..Len(alerts) : i # j => alerts[i].id # alerts[j].id

\* All four alerts of two entities are active, raised by calls at different times.
C3_Witness ==
    /\ aLastOp.op = "checkForAlerts"
    /\ Len(alerts) = 2 * MaxEntities
    /\ \E i, j \in 1..Len(alerts) : alerts[i].timestamp # alerts[j].timestamp

\* C4: a checkForAlerts call whose snapshot shows an entity online leaves
\* neither its offline alert nor its accuracy alert active, and every alert of
\* an entity the snapshot does not show online stays active, unchanged.
C4_OnlineClearsOwnAlertsOnly ==
    [][aLastOp'.op = "checkForAlerts" =>
          /\ \A e \in aLastOp'.online :
                /\ AlertId("offline", e) \notin AlertIds(alerts')
                /\ AlertId("accuracy", e) \notin AlertIds(alerts')
          /\ \A i \in 1..Len(alerts) :
                EntityOf(alerts[i].id) \notin aLastOp'.someOnline
                   => alerts[i] \in Range(alerts')]_vars

\* A call cleared both alerts of an entity shown online and kept another entity's.
C4_Witness ==
    /\ aLastOp.op = "checkForAlerts"
    /\ \E e \in aLastOp.online :
          /\ {AlertId("offline", e), AlertId("accuracy", e)} \subseteq aLastOp.cleared
          /\ \E i \in 1..Len(alerts) :
                EntityOf(alerts[i].id) # e /\ alerts[i].timestamp < clock

\* C5 as stated: an active alert leaves the active set only in a
\* checkForAlerts call whose snapshot shows its entity online.
C5_OnlyOnlineRuleClears ==
    [][\A id \in AlertIds(alerts) \ AlertIds(alerts') :
          /\ aLastOp'.op = "checkForAlerts"
          /\ EntityOf(id) \in aLastOp'.someOnline]_vars

\* C5 amended: an active alert leaves the active set only in a checkForAlerts
\* call whose snapshot shows its entity online, or when the user clicks the x
\* button rendered for it (removeAlert); time passing and timers remove none.
C5_OnlineRuleOrDismissClears ==
    [][\A id \in AlertIds(alerts) \ AlertIds(alerts') :
          \/ /\ aLastOp'.op = "checkForAlerts"
             /\ EntityOf(id) \in aLastOp'.someOnline
          \/ /\ aLastOp'.op = "removeAlert"
             /\ aLastOp'.id = id]_vars

\* The user dismissed an active alert with its x button while others stay,
\* after time has passed.
C5_Witness ==
    /\ aLastOp.op = "removeAlert"
    /\ aLastOp.cleared = {aLastOp.id}
    /\ alerts # <<>>
    /\ clock > 0

\* C18: checkForAlerts is idempotent on the set of active alert ids: from
\* every reachable alert state and for every snapshot, a second call with the
\* same snapshot, at once or later, leaves the ids the first call left.
C18_CheckForAlertsIdempotent ==
    \A auditors \in AlertSnapshots, later \in clock..MaxClock :
        LET once == checkForAlerts(AlertState, auditors, clock)
            twice == checkForAlerts(once, auditors, later)
        IN  AlertIds(twice.alerts) = AlertIds(once.alerts)

\* After a checkForAlerts call alerts are active, and some snapshot both
\* raises an alert and clears one, and does neither when it is passed again.
C18_Witness ==
    /\ aLastOp.op = "checkForAlerts"
    /\ \E auditors \in AlertSnapshots :
          LET once == checkForAlerts(AlertState, auditors, clock)
              twice == checkForAlerts(once, auditors, MaxClock)
          IN  /\ AlertIds(once.alerts) \ AlertIds(alerts) # {}
              /\ AlertIds(alerts) \ AlertIds(once.alerts) # {}
              /\ AlertIds(twice.alerts) = AlertIds(once.alerts)

\* The records of a snapshot have distinct entity ids.
DistinctIds(auditors) ==
    \A i, j \in 1..Len(auditors) : i # j => auditors[i].id # auditors[j].id

\* C24: from every reachable alert state, after checkForAlerts returns for a
\* snapshot with distinct entity ids, every offline entity of it has its
\* offline alert active, every entity of it that is not online and has an
\* accuracy above 500 has its accuracy alert active, and an entity with an
\* accuracy of 500 or less has an accuracy alert only if it had one before.
C24_RulesRaiseTheirAlerts ==
    \A auditors \in AlertSnapshots :
        DistinctIds(auditors) =>
           LET after == AlertIds(checkForAlerts(AlertState, auditors, clock).alerts) IN
           \A i \in 1..Len(auditors) :
              LET auditor == auditors[i] IN
              /\ auditor.status_class = "offline" => AlertId("offline", auditor.id) \in after
              /\ (auditor.status_class # "online" /\ auditor.accuracy > lowAccuracyLimit)
                    => AlertId("accuracy", auditor.id) \in after
              /\ (auditor.accuracy <= lowAccuracyLimit /\ AlertId("accuracy", auditor.id) \in after)
                    => AlertId("accuracy", auditor.id) \in AlertIds(alerts)

\* A checkForAlerts call raised the offline alert of one entity, but not its
\* accuracy alert, and the accuracy alert of another, and cleared none.
C24_Witness ==
    /\ aLastOp.op = "checkForAlerts"
    /\ \E e, f \in Entities :
          /\ e # f
          /\ AlertIds(alerts) = {AlertId("offline", e), AlertId("accuracy", f)}
          /\ aLastOp.cleared = {}
          /\ \A i \in 1..Len(alerts) : alerts[i].timestamp = clock

(***************************************************************************)
(* Part 3. EnhancedTrackingFeatures: the route trails                      *)
(***************************************************************************)

\* if (positions.length > 20) positions.shift()
maxTrailLength == 20

\* Points pushed on all trails together in one run of the model.
MaxAppended == 22

\* A coordinate the feed record lacks (null or undefined).
NoCoord == 999

\* Latitudes and longitudes of the feed: absent, zero, and two other values.
FeedLats == {NoCoord, 0, 1, 2}
FeedLngs == {0, 1}

\* auditor.last_update of the feed.
FeedTimes == {0}

\* The fields of a feed record that updateRouteTrails reads.
TrailAuditors == [id : Entities, lat : FeedLats, lng : FeedLngs, last_update : FeedTimes]

TrailSnapshots == SeqsUpTo(TrailAuditors, MaxSnapshot)

\* The fields of the object and of the map that the trail methods touch.
TrailState ==
    [previousPositions |-> previousPositions, routes |-> routes,
     mapPolylines |-> mapPolylines, appended |-> appended]

\* JavaScript truthiness of a coordinate: null, undefined and 0 are falsy.
Truthy(x) == x # NoCoord /\ x # 0

\* auditor.lat && auditor.lng
HasCoordinates(auditor) == Truthy(auditor.lat) /\ Truthy(auditor.lng)

\* !lastPosition || lastPosition.lat !== newPosition.lat || lastPosition.lng !== newPosition.lng
IsNewPoint(positions, newPosition) ==
    \/ positions = <<>>
    \/ Last(positions).lat # newPosition.lat
    \/ Last(positions).lng # newPosition.lng

\* Mutant: on overflow the newest point is dropped (pop) instead of the oldest.
PushPosition_DropsNewest(positions, newPosition) ==
    LET pushed == Append(positions, newPosition) IN
    IF Len(pushed) > maxTrailLength THEN SubSeq(pushed, 1, maxTrailLength) ELSE pushed

\* positions.push(newPosition); if (positions.length > 20) positions.shift()
PushPosition(positions, newPosition) ==
    LET pushed == Append(positions, newPosition) IN
    IF Len(pushed) > maxTrailLength THEN Tail(pushed) ELSE pushed

\* positions.map(pos => ({ lat: pos.lat, lng: pos.lng }))
PathOf(positions) == [i \in 1..Len(positions) |-> [lat |-> positions[i].lat, lng |-> positions[i].lng]]

\* Mutant: drawTrail draws whatever the length.
TooShortToDraw_Never(positions) == FALSE

\* positions.length < 2: drawTrail returns without drawing
TooShortToDraw(positions) == Len(positions) < 2

\* Mutant: the previous polyline is not taken off the map.
drawTrail_KeepsOld(T, auditorId, positions) ==
    IF TooShortToDraw(positions) THEN T
    ELSE LET trail == [auditorId |-> auditorId, path |-> PathOf(positions)]
         IN  [T EXCEPT !.mapPolylines = @ \cup {trail},
                       !.routes[auditorId] = trail]

drawTrail(T, auditorId, positions) ==
    IF TooShortToDraw(positions) THEN T
    ELSE LET trail == [auditorId |-> auditorId, path |-> PathOf(positions)]
             detached == IF T.routes[auditorId] # null
                         THEN T.mapPolylines \ {T.routes[auditorId]}
                         ELSE T.mapPolylines
         IN  [T EXCEPT !.mapPolylines = detached \cup {trail},
                       !.routes[auditorId] = trail]

\* The body of auditors.forEach in updateRouteTrails.
UpdateAuditor(T, auditor) ==
    IF ~HasCoordinates(auditor) THEN T
    ELSE LET auditorId == auditor.id
             newPosition == [lat |-> auditor.lat, lng |-> auditor.lng,
                             timestamp |-> auditor.last_update]
             positions == T.previousPositions[auditorId]
         IN  IF IsNewPoint(positions, newPosition)
             THEN drawTrail([T EXCEPT !.previousPositions[auditorId] =
                                          PushPosition(positions, newPosition),
                                      !.appended[auditorId] = Append(@, newPosition)],
                            auditorId, PushPosition(positions, newPosition))
             ELSE T

RECURSIVE updateRouteTrails(_, _)
updateRouteTrails(T, auditors) ==
    IF auditors = <<>> THEN T
    ELSE updateRouteTrails(UpdateAuditor(T, Head(auditors)), Tail(auditors))

\* Entities all of whose records in the snapshot repeat the last stored point.
RepeatsLastPoint(auditors) ==
    {e \in InSnapshot(auditors) :
        /\ previousPositions[e] # <<>>
        /\ \A i \in 1..Len(auditors) :
              auditors[i].id = e =>
                 /\ auditors[i].lat = Last(previousPositions[e]).lat
                 /\ auditors[i].lng = Last(previousPositions[e]).lng}

RECURSIVE SumLen(_, _)
SumLen(f, n) == IF n = 0 THEN 0 ELSE Len(f[n]) + SumLen(f, n - 1)

TotalAppended(T) == SumLen(T.appended, MaxEntities)

TrailsInit ==
    /\ previousPositions = [e \in Entities |-> <<>>]
    /\ routes = [e \in Entities |-> null]
    /\ mapPolylines = {}
    /\ appended = [e \in Entities |-> <<>>]
    /\ tLastOp = [op |-> "constructor"]

\* The dashboard poll passes a feed snapshot to updateRouteTrails.
UpdateRouteTrails ==
    \E auditors \in TrailSnapshots :
        LET T == updateRouteTrails(TrailState, auditors) IN
        /\ TotalAppended(T) <= MaxAppended
        /\ previousPositions' = T.previousPositions
        /\ routes' = T.routes
        /\ mapPolylines' = T.mapPolylines
        /\ appended' = T.appended
        /\ tLastOp' = [op |-> "updateRouteTrails", repeated |-> RepeatsLastPoint(auditors)]
        /\ UNCHANGED notTrails

TrailsNext == UpdateRouteTrails

(***************************************************************************)
(* Claims about the route trails.                                          *)
(***************************************************************************)

\* The polylines of an entity that are attached to the map.
PolylinesOf(e, polylines) == {pl \in polylines : pl.auditorId = e}

\* The last n elements of a sequence (all of it when it is shorter).
LastN(s, n) == IF Len(s) <= n THEN s ELSE SubSeq(s, Len(s) - n + 1, Len(s))

\* C6: no polyline is ever rendered for a trail holding fewer than 2 points,
\* and an updateRouteTrails call whose (lat, lng) for an entity equals the
\* last stored point of its trail changes neither the stored trail nor the
\* rendered polyline of that entity.
C6_NoShortTrailRenderedAndRepeatIsNoOp ==
    /\ [](\A e \in Entities :
             /\ routes[e] # null => Len(routes[e].path) >= 2 /\ Len(previousPositions[e]) >= 2
             /\ \A pl \in PolylinesOf(e, mapPolylines) : Len(pl.path) >= 2)
    /\ [][tLastOp'.op = "updateRouteTrails" =>
             \A e \in tLastOp'.repeated :
                /\ previousPositions'[e] = previousPositions[e]
                /\ routes'[e] = routes[e]
                /\ PolylinesOf(e, mapPolylines') = PolylinesOf(e, mapPolylines)]_vars

\* A call repeated the last point of a rendered trail, and repeated the only
\* point of another trail, which stays unrendered.
C6_Witness ==
    /\ tLastOp.op = "updateRouteTrails"
    /\ \E e, f \in tLastOp.repeated :
          /\ routes[e] # null
          /\ Len(previousPositions[f]) = 1
          /\ routes[f] = null
          /\ PolylinesOf(f, mapPolylines) = {}

\* C7: every stored trail has at most 20 points, and it is the last 20 of the
\* points appended to it, in arrival order: the oldest point is evicted first.
C7_TrailIsLastTwentyAppended ==
    \A e \in Entities :
       /\ Len(previousPositions[e]) <= maxTrailLength
       /\ previousPositions[e] = LastN(appended[e], maxTrailLength)

\* A 21st distinct point was appended to a trail.
C7_Witness ==
    \E e \in Entities :
       /\ Len(appended[e]) > maxTrailLength
       /\ Len(previousPositions[e]) = maxTrailLength
       /\ previousPositions[e][1] = appended[e][Len(appended[e]) - maxTrailLength + 1]

\* C23: at most one polyline per entity is attached to the map; it is the one
\* held in routes and its path is the entity's whole stored trail, same points
\* in the same order; and a redraw takes the previous polyline off the map.
C23_OnePolylineCoveringTheTrail ==
    /\ [](\A e \in Entities :
             /\ Cardinality(PolylinesOf(e, mapPolylines)) <= 1
             /\ routes[e] = null => PolylinesOf(e, mapPolylines) = {}
             /\ routes[e] # null =>
                   /\ PolylinesOf(e, mapPolylines) = {routes[e]}
                   /\ routes[e].path = PathOf(previousPositions[e]))
    /\ [][\A e \in Entities :
             (routes[e] # null /\ routes'[e] # routes[e]) => routes[e] \notin mapPolylines']_vars

\* Two entities have a rendered trail, one of them redrawn at least once.
C23_Witness ==
    \E e, f \in Entities :
       /\ e # f
       /\ routes[e] # null /\ Len(routes[e].path) >= 3
       /\ routes[f] # null
       /\ Cardinality(mapPolylines) = 2

\* C19: from every reachable trail state, updateRouteTrails appends the point
\* of every record that has both coordinates (0 included) and differs from
\* the last stored point of its trail, and changes nothing for a record that
\* lacks a coordinate.
C19_EveryPresentCoordinateIsProcessed ==
    \A auditor \in TrailAuditors :
        LET T == updateRouteTrails(TrailState, <<auditor>>)
            newPosition == [lat |-> auditor.lat, lng |-> auditor.lng,
                            timestamp |-> auditor.last_update]
        IN  IF auditor.lat # NoCoord /\ auditor.lng # NoCoord
            THEN IsNewPoint(previousPositions[auditor.id], newPosition)
                    => T.appended[auditor.id] = Append(appended[auditor.id], newPosition)
            ELSE T = TrailState

(***************************************************************************)
(* Part 4. LocationTracker: the tracking session controller                *)
(***************************************************************************)

\* startTracking calls that may be in progress at once.
MaxStartCalls == 2

\* Sessions the session endpoint accepts in one run of the model.
MaxSessions == 2

\* Watch samples onLocationUpdate stores in one run of the model.
MaxAccepted == 1

\* stopTracking calls that may await the session endpoint at once.
MaxStopCalls == 1

\* if (this.locationHistory.length > 10) ... slice(-10)
maxHistoryLength == 10

StartCallIds == 1..MaxStartCalls

\* A watch id of navigator.geolocation, a session id of the session endpoint.
Watch(n) == [watch |-> n]
Session(n) == [session |-> n]

\* Accuracy radii of the fixes the tracker receives.
TrackerAccuracies == {15}

\* What a fetch of an endpoint ends with: the request fails (or the body is no
\* JSON), or a JSON body arrives under a success (2xx) or an error status.
NetworkFailure == [failed |-> TRUE]
JsonResponse(ok, success) == [failed |-> FALSE, ok |-> ok, success |-> success]
Responses == {NetworkFailure} \cup {JsonResponse(ok, success) : ok \in BOOLEAN, success \in BOOLEAN}

\* await response.json() throws, or the body has success false:
\* startTrackingSession / sendLocationUpdate make the caller throw.
FetchThrows(response) == response.failed

\* if (!result.success) throw ...
BodyRejects(response) == ~response.failed /\ ~response.success

\* sendLocationUpdate after its fetch: it throws when fetch or response.json()
\* throws and when the body has success false; otherwise it returns the body.
ReportThrows(response) == FetchThrows(response) \/ BodyRejects(response)

\* The fields of the controller and of the page that the helpers touch.
TrackerState ==
    [watchId |-> watchId, isTracking |-> isTracking, sessionId |-> sessionId,
     lastUpdate |-> lastUpdate, locationHistory |-> locationHistory,
     startBtnDisplay |-> startBtnDisplay, stopBtnDisplay |-> stopBtnDisplay,
     statusText |-> statusText,
     locationDisplay |-> locationDisplay, message |-> message,
     messageTimer |-> messageTimer, watches |-> watches, nextWatchId |-> nextWatchId,
     lastReport |-> lastReport]

SetTrackerState(K) ==
    /\ watchId' = K.watchId
    /\ isTracking' = K.isTracking
    /\ sessionId' = K.sessionId
    /\ lastUpdate' = K.lastUpdate
    /\ locationHistory' = K.locationHistory
    /\ startBtnDisplay' = K.startBtnDisplay
    /\ stopBtnDisplay' = K.stopBtnDisplay
    /\ statusText' = K.statusText
    /\ locationDisplay' = K.locationDisplay
    /\ message' = K.message
    /\ messageTimer' = K.messageTimer
    /\ watches' = K.watches
    /\ nextWatchId' = K.nextWatchId
    /\ lastReport' = K.lastReport

showMessage(K, text, type) ==
    [K EXCEPT !.message = [text |-> text, type |-> type, display |-> "block"],
              !.messageTimer = TRUE]

showSuccess(K, text) == showMessage(K, text, "success")

\* Mutant: showError shows nothing.
showError_Silent(K, text) == K

showError(K, text) == showMessage(K, text, "error")

\* What getElementById returns for an element of the tracking panel when
\* createTrackingUI never inserted the panel.
NoElement == "no element"

\* if (el) el.style.display = value / el.textContent = value
SetIfPresent(old, value) == IF old = NoElement THEN old ELSE value

\* A button of the panel that the page shows, so that it can be clicked.
Shown(display) == display # NoElement /\ display # "none"

updateTrackingUI(K) ==
    IF K.isTracking
    THEN [K EXCEPT !.startBtnDisplay = SetIfPresent(@, "none"),
                   !.stopBtnDisplay = SetIfPresent(@, "inline-block"),
                   !.statusText = SetIfPresent(@, "Live tracking active")]
    ELSE [K EXCEPT !.startBtnDisplay = SetIfPresent(@, "inline-block"),
                   !.stopBtnDisplay = SetIfPresent(@, "none"),
                   !.statusText = SetIfPresent(@, "Tracking stopped")]

\* sendLocationUpdate up to its fetch: the body carries this.sessionId.
sendLocationUpdate(K, position) ==
    [K EXCEPT !.lastReport = [position |-> position, session_id |-> K.sessionId]]

\* navigator.geolocation.watchPosition(...) and the assignment of its result.
watchPosition(K) ==
    [K EXCEPT !.watchId = Watch(K.nextWatchId),
              !.watches = @ \cup {K.nextWatchId},
              !.nextWatchId = @ + 1]

\* The catch block of startTracking.
StartCatch(K) ==
    [showError(K, "Failed to start tracking") EXCEPT !.isTracking = FALSE]

\* startTracking from the accepted session response to await sendLocationUpdate.
StartAccepted(K, session_id, position) ==
    sendLocationUpdate(
        watchPosition([K EXCEPT !.sessionId = session_id, !.isTracking = TRUE]),
        position)

\* startTracking after the initial report was delivered.
StartCompleted(K) ==
    showSuccess(updateTrackingUI(K), "High-precision tracking started")

\* stopTracking up to await stopTrackingSession().
StopBegin(K) ==
    IF K.watchId # null
    THEN [K EXCEPT !.watches = @ \ {K.watchId.watch}, !.watchId = null]
    ELSE K

\* stopTracking after await stopTrackingSession().
StopCompleted(K) ==
    showSuccess(updateTrackingUI([K EXCEPT !.isTracking = FALSE,
                                           !.sessionId = null,
                                           !.lastUpdate = null]),
                "Location tracking stopped")

\* The catch block of stopTracking.
StopCatch(K) == showError(K, "Error stopping tracking")

\* Mutant: on overflow the first 10 entries are kept (slice(0, 10)).
PushHistory_KeepsOldest(history, entry) ==
    LET pushed == Append(history, entry) IN
    IF Len(pushed) > maxHistoryLength THEN SubSeq(pushed, 1, maxHistoryLength) ELSE pushed

\* this.locationHistory.push(...); keep only the last 10
PushHistory(history, entry) ==
    LET pushed == Append(history, entry) IN
    IF Len(pushed) > maxHistoryLength
    THEN SubSeq(pushed, Len(pushed) - maxHistoryLength + 1, Len(pushed))
    ELSE pushed

\* onLocationUpdate of a tracking controller, up to await sendLocationUpdate().
StoreAndSend(K, position) ==
    sendLocationUpdate([K EXCEPT !.locationHistory = PushHistory(@, position)], position)

\* onLocationUpdate after the report was delivered.
UpdateDelivered(K, position) ==
    [K EXCEPT !.locationDisplay = [position |-> position, session |-> K.sessionId,
                                   updates |-> Len(K.locationHistory)],
              !.lastUpdate = [date |-> "now"]]

\* Mutant: the catch block of onLocationUpdate shows the failure to the user.
UpdateCatch_ShowsError(K) == showError(K, "Failed to send location update")

\* The catch block of onLocationUpdate: console.error only.
UpdateCatch(K) == K

\* Mutant: onLocationUpdate has no guard.
NotTracking_Never(K) == FALSE

\* if (!this.isTracking) return;
NotTracking(K) == ~K.isTracking

\* Mutant: the early return for timeouts is missing.
IsTimeout_Never(code) == FALSE

\* error.code === 3: onLocationError returns at once
IsTimeout(code) == code = TIMEOUT

onLocationError(K, code) ==
    IF IsTimeout(code) THEN K
    ELSE IF code = PERMISSION_DENIED
         THEN updateTrackingUI(showError([K EXCEPT !.isTracking = FALSE],
                                         "Location permission denied."))
         ELSE IF code = POSITION_UNAVAILABLE
              THEN showError(K, "Location unavailable.")
              ELSE showError(K, "Unknown location error")

NoCall == [pc |-> "none", position |-> null]

\* createTrackingUI with a container found: the panel is inserted, the start
\* button without an inline display, the stop button hidden.
createTrackingUI ==
    /\ startBtnDisplay = ""
    /\ stopBtnDisplay = "none"
    /\ statusText = "Ready to track"

\* No panel: init() returned before createTrackingUI, or createTrackingUI
\* found no container to insert it in.
NoTrackingUI ==
    /\ startBtnDisplay = NoElement
    /\ stopBtnDisplay = NoElement
    /\ statusText = NoElement

\* new LocationTracker(): the constructor's assignments, then init().
TrackerInit ==
    /\ watchId = null
    /\ isTracking = FALSE
    /\ sessionId = null
    /\ lastUpdate = null
    /\ locationHistory = <<>>
    /\ locationDisplay = null
    /\ geolocation \in BOOLEAN
    /\ \E targetContainer \in BOOLEAN :
          /\ IF geolocation /\ targetContainer
             THEN createTrackingUI
             ELSE NoTrackingUI
          /\ IF geolocation
             THEN /\ message = null
                  /\ messageTimer = FALSE
             ELSE /\ message = [text |-> "Location tracking not supported in this browser",
                                type |-> "error", display |-> "block"]
                  /\ messageTimer = TRUE
    /\ watches = {}
    /\ nextWatchId = 1
    /\ nextSessionId = 1
    /\ startCalls = [c \in StartCallIds |-> NoCall]
    /\ stopCalls = 0
    /\ updateCalls = <<>>
    /\ lastReport = null
    /\ accepted = <<>>
    /\ stopDuringStart = FALSE
    /\ kLastOp = [op |-> "constructor"]

\* A click on "Start Live Tracking": startTracking() runs up to
\* await this.getCurrentLocationUltraAccuracy().
StartClick ==
    /\ Shown(startBtnDisplay)
    /\ \E c \in StartCallIds :
          /\ startCalls[c].pc = "none"
          /\ \A d \in StartCallIds : d < c => startCalls[d].pc # "none"
          /\ startCalls' = [startCalls EXCEPT ![c] = [pc |-> "acquiring", position |-> null]]
          /\ kLastOp' = [op |-> "startTracking"]
    /\ stopDuringStart' = IF \A d \in StartCallIds : startCalls[d].pc = "none"
                          THEN FALSE ELSE stopDuringStart
    /\ UNCHANGED <<watchId, isTracking, sessionId, lastUpdate, locationHistory,
                   startBtnDisplay, stopBtnDisplay, statusText, locationDisplay,
                   message, messageTimer, watches, nextWatchId, nextSessionId,
                   stopCalls, updateCalls, lastReport, accepted>>
    /\ UNCHANGED notTracker

\* The acquisition resolves: startTracking goes on to await startTrackingSession().
StartAcquired ==
    /\ \E c \in StartCallIds, a \in TrackerAccuracies :
          /\ startCalls[c].pc = "acquiring"
          /\ startCalls' = [startCalls EXCEPT ![c] = [pc |-> "session", position |-> Position(a, 0)]]
          /\ kLastOp' = [op |-> "startAcquired"]
    /\ UNCHANGED <<watchId, isTracking, sessionId, lastUpdate, locationHistory,
                   startBtnDisplay, stopBtnDisplay, statusText,
                   locationDisplay, message, messageTimer, watches, nextWatchId,
                   nextSessionId, stopCalls, updateCalls, lastReport, accepted, stopDuringStart>>
    /\ UNCHANGED notTracker

\* The acquisition rejects: the catch block of startTracking runs.
StartAcquireFailed ==
    /\ \E c \in StartCallIds, code \in ErrorCodes :
          /\ startCalls[c].pc = "acquiring"
          /\ startCalls' = [startCalls EXCEPT ![c] = NoCall]
          /\ kLastOp' = [op |-> "startAcquireFailed", code |-> code]
    /\ SetTrackerState(StartCatch(TrackerState))
    /\ UNCHANGED <<nextSessionId, stopCalls, updateCalls, accepted, stopDuringStart>>
    /\ UNCHANGED notTracker

\* sessionResponse.session_id of an accepted body: the id of the session the
\* endpoint opened, or nothing when the body carries no session_id (or null).
SessionIdOf(carriesId, n) == IF carriesId THEN Session(n) ELSE null

\* The session endpoint answers the session-start request.
StartSessionResponse ==
    /\ \E c \in StartCallIds, response \in Responses, carriesId \in BOOLEAN :
          /\ startCalls[c].pc = "session"
          /\ IF FetchThrows(response) \/ BodyRejects(response)
             THEN /\ SetTrackerState(StartCatch(TrackerState))
                  /\ startCalls' = [startCalls EXCEPT ![c] = NoCall]
                  /\ kLastOp' = [op |-> IF FetchThrows(response)
                                        THEN "startSessionFailed" ELSE "startRejected"]
                  /\ UNCHANGED nextSessionId
             ELSE /\ nextSessionId <= MaxSessions
                  /\ SetTrackerState(StartAccepted(TrackerState,
                                                   SessionIdOf(carriesId, nextSessionId),
                                                   startCalls[c].position))
                  /\ nextSessionId' = nextSessionId + 1
                  /\ startCalls' = [startCalls EXCEPT ![c].pc = "report"]
                  /\ kLastOp' = [op |-> "startAccepted"]
    /\ UNCHANGED <<stopCalls, updateCalls, accepted, stopDuringStart>>
    /\ UNCHANGED notTracker

\* The collector answers the report of the initial position.
StartReportResponse ==
    /\ \E c \in StartCallIds, response \in Responses :
          /\ startCalls[c].pc = "report"
          /\ startCalls' = [startCalls EXCEPT ![c] = NoCall]
          /\ IF ReportThrows(response)
             THEN /\ SetTrackerState(StartCatch(TrackerState))
                  /\ kLastOp' = [op |-> "startReportFailed", response |-> response]
             ELSE /\ SetTrackerState(StartCompleted(TrackerState))
                  /\ kLastOp' = [op |-> "startCompleted", response |-> response]
    /\ UNCHANGED <<nextSessionId, stopCalls, updateCalls, accepted, stopDuringStart>>
    /\ UNCHANGED notTracker

\* A click on "Stop Tracking": stopTracking() runs up to
\* await this.stopTrackingSession(), or to its end when no session id is held.
StopClick ==
    /\ Shown(stopBtnDisplay)
    /\ IF sessionId # null
       THEN /\ stopCalls < MaxStopCalls
            /\ SetTrackerState(StopBegin(TrackerState))
            /\ stopCalls' = stopCalls + 1
            /\ kLastOp' = [op |-> "stopTracking"]
       ELSE /\ SetTrackerState(StopCompleted(StopBegin(TrackerState)))
            /\ kLastOp' = [op |-> "stopCompleted"]
            /\ UNCHANGED stopCalls
    /\ stopDuringStart' = (stopDuringStart \/ \E c \in StartCallIds : startCalls[c].pc # "none")
    /\ UNCHANGED <<nextSessionId, startCalls, updateCalls, accepted>>
    /\ UNCHANGED notTracker

\* The session endpoint answers the session-stop request.
StopResponse ==
    /\ stopCalls > 0
    /\ stopCalls' = stopCalls - 1
    /\ \E response \in Responses :
          /\ kLastOp' = [op |-> "stopResponse", response |-> response]
          /\ IF FetchThrows(response)
             THEN SetTrackerState(StopCatch(TrackerState))
             ELSE SetTrackerState(StopCompleted(TrackerState))
    /\ UNCHANGED <<nextSessionId, startCalls, updateCalls, accepted, stopDuringStart>>
    /\ UNCHANGED notTracker

\* A registered watch delivers a position: onLocationUpdate(position) runs up
\* to await this.sendLocationUpdate(position), or returns when not tracking.
\* At most maxAccepted samples are stored in one run, and at most maxPending
\* onLocationUpdate calls await the collector at once.
OnLocationUpdate(maxAccepted, maxPending) ==
    /\ watches # {}
    /\ \E a \in TrackerAccuracies :
          IF NotTracking(TrackerState)
          THEN /\ kLastOp' = [op |-> "onLocationUpdate", stored |-> FALSE]
               /\ UNCHANGED <<varsController, nextSessionId, startCalls, stopCalls,
                              updateCalls, accepted, stopDuringStart>>
          ELSE /\ Len(accepted) < maxAccepted
               /\ Len(updateCalls) < maxPending
               /\ SetTrackerState(StoreAndSend(TrackerState, Position(a, Len(accepted) + 1)))
               /\ updateCalls' = Append(updateCalls, Position(a, Len(accepted) + 1))
               /\ accepted' = Append(accepted, Position(a, Len(accepted) + 1))
               /\ kLastOp' = [op |-> "onLocationUpdate", stored |-> TRUE]
               /\ UNCHANGED <<nextSessionId, startCalls, stopCalls, stopDuringStart>>
    /\ UNCHANGED notTracker

WatchSuccess == OnLocationUpdate(MaxAccepted, MaxAccepted)

\* The collector answers the report of a watch sample: onLocationUpdate resumes.
UpdateReportResponse ==
    /\ \E i \in 1..Len(updateCalls), response \in Responses :
          /\ updateCalls' = [j \in 1..(Len(updateCalls) - 1) |->
                                IF j < i THEN updateCalls[j] ELSE updateCalls[j + 1]]
          /\ IF ReportThrows(response)
             THEN /\ kLastOp' = [op |-> "updateReportFailed", response |-> response]
                  /\ SetTrackerState(UpdateCatch(TrackerState))
             ELSE /\ SetTrackerState(UpdateDelivered(TrackerState, updateCalls[i]))
                  /\ kLastOp' = [op |-> "updateDelivered", response |-> response]
    /\ UNCHANGED <<nextSessionId, startCalls, stopCalls, accepted, stopDuringStart>>
    /\ UNCHANGED notTracker

\* A registered watch reports an error: onLocationError(error).
WatchError ==
    /\ watches # {}
    /\ \E code \in ErrorCodes :
          /\ SetTrackerState(onLocationError(TrackerState, code))
          /\ kLastOp' = [op |-> "onLocationError", code |-> code, wasTracking |-> isTracking]
    /\ UNCHANGED <<nextSessionId, startCalls, stopCalls, updateCalls, accepted, stopDuringStart>>
    /\ UNCHANGED notTracker

\* A 5 s timer of showMessage fires and hides the message; timers set by
\* later messages may remain.
MessageTimeout ==
    /\ messageTimer
    /\ messageTimer' \in BOOLEAN
    /\ message' = [message EXCEPT !.display = "none"]
    /\ kLastOp' = [op |-> "messageTimer"]
    /\ UNCHANGED <<watchId, isTracking, sessionId, lastUpdate, locationHistory,
                   startBtnDisplay, stopBtnDisplay, statusText,
                   locationDisplay, watches, nextWatchId, nextSessionId, startCalls,
                   stopCalls, updateCalls, lastReport, accepted, stopDuringStart>>
    /\ UNCHANGED notTracker

TrackerNext ==
    \/ StartClick \/ StartAcquired \/ StartAcquireFailed \/ StartSessionResponse
    \/ StartReportResponse \/ StopClick \/ StopResponse \/ WatchSuccess
    \/ UpdateReportResponse \/ WatchError \/ MessageTimeout

(***************************************************************************)
(* The tracking controller under a long run of watch samples: the user     *)
(* starts tracking only when no startTracking call is in progress, and     *)
(* the transient messages stay on display.                                 *)
(***************************************************************************)

\* Watch samples onLocationUpdate stores in one long run.
MaxHistoryAccepted == 12

\* onLocationUpdate calls that await the collector at once in a long run.
MaxPendingUpdates == 1

HistoryStartClick ==
    /\ \A c \in StartCallIds : startCalls[c].pc = "none"
    /\ StartClick

HistoryWatchSuccess == OnLocationUpdate(MaxHistoryAccepted, MaxPendingUpdates)

HistoryNext ==
    \/ HistoryStartClick \/ StartAcquired \/ StartSessionResponse \/ StartReportResponse
    \/ StopClick \/ StopResponse \/ HistoryWatchSuccess \/ UpdateReportResponse
    \/ WatchError

(***************************************************************************)
(* Claims about the tracking controller.                                   *)
(***************************************************************************)

\* C8: when the session endpoint rejects the session-start request (success
\* false), startTracking leaves the controller Idle: isTracking false, no
\* session id, an error message shown, and no watch registered.
C8_RejectedStartLeavesIdle ==
    kLastOp.op = "startRejected" =>
       /\ ~isTracking
       /\ sessionId = null
       /\ watchId = null
       /\ watches = {}
       /\ message # null /\ message.type = "error" /\ message.display = "block"

\* C9: PermissionDenied delivered to onLocationError while the controller is
\* Active ends with the controller Idle, the watch cancelled (none remains
\* registered) and the session id cleared.
C9_PermissionDeniedEndsIdle ==
    (kLastOp.op = "onLocationError" /\ kLastOp.code = PERMISSION_DENIED /\ kLastOp.wasTracking) =>
       /\ ~isTracking
       /\ watchId = null
       /\ watches = {}
       /\ sessionId = null

\* C10: a Timeout delivered to onLocationError while the controller is Active
\* leaves isTracking, sessionId, watchId and locationHistory unchanged and
\* shows no message to the user.
C10_TimeoutChangesNothing ==
    [][(kLastOp'.op = "onLocationError" /\ kLastOp'.code = TIMEOUT /\ isTracking) =>
          /\ UNCHANGED <<isTracking, sessionId, watchId, locationHistory>>
          /\ UNCHANGED <<message, messageTimer>>]_vars

\* A Timeout arrived at an Active controller that holds a session, a watch
\* and a stored sample, with no message on display.
C10_Witness ==
    /\ kLastOp.op = "onLocationError"
    /\ kLastOp.code = TIMEOUT
    /\ kLastOp.wasTracking
    /\ isTracking
    /\ sessionId # null
    /\ watchId # null
    /\ locationHistory # <<>>
    /\ message # null /\ message.display = "none"

\* A response that reports a failure: the request failed, the transport
\* status is an error status, or the body has success false.
IsFailure(response) == response.failed \/ ~response.ok \/ ~response.success

\* No call of the controller is suspended at an await.
Quiescent ==
    /\ \A c \in StartCallIds : startCalls[c].pc = "none"
    /\ stopCalls = 0
    /\ updateCalls = <<>>

\* C11: when the session-stop request fails (the request fails or the
\* endpoint answers with an error), stopTracking still completes the local
\* transition, isTracking false and the session id cleared, and shows the
\* failure to the user as an error message.
C11_FailedStopStillCompletes ==
    (kLastOp.op = "stopResponse" /\ IsFailure(kLastOp.response)) =>
       /\ ~isTracking
       /\ sessionId = null
       /\ message # null /\ message.type = "error" /\ message.display = "block"

\* C12: after stopTracking completes with the session endpoint answering
\* normally, no watch is registered, the session id is cleared,
\* locationHistory is empty and the controller is Idle.
C12_StopClearsEverything ==
    (kLastOp.op = "stopResponse" /\ kLastOp.response = JsonResponse(TRUE, TRUE)) =>
       /\ ~isTracking
       /\ watchId = null
       /\ watches = {}
       /\ sessionId = null
       /\ locationHistory = <<>>

\* C13: when the report of the initial position fails after the session was
\* accepted, startTracking ends with isTracking false, no watch registered
\* and no session id; and in every quiescent state with isTracking false,
\* watchId and sessionId are both null.
C13_FailedInitialReportEndsIdle ==
    /\ kLastOp.op = "startReportFailed" =>
          /\ ~isTracking
          /\ watchId = null
          /\ watches = {}
          /\ sessionId = null
    /\ (Quiescent /\ ~isTracking) => (watchId = null /\ sessionId = null)

\* C14: while the first startTracking call awaits the report of its initial
\* position, no sample of the watch has been stored in locationHistory or
\* sent to the collector.
C14_NoSampleBeforeInitialReport ==
    (nextSessionId = 2 /\ \E c \in StartCallIds : startCalls[c].pc = "report") =>
       /\ accepted = <<>>
       /\ locationHistory = <<>>
       /\ updateCalls = <<>>

\* C15: startTracking takes effect from Idle only: at most one startTracking
\* call is in progress, never while the controller is tracking, at most one
\* watch is registered and it is the one whose id watchId holds.
C15_StartFromIdleOnly ==
    /\ Cardinality({c \in StartCallIds : startCalls[c].pc # "none"}) <= 1
    /\ \A c \in StartCallIds : startCalls[c].pc = "acquiring" => ~isTracking
    /\ Cardinality(watches) <= 1
    /\ watches # {} => (watchId # null /\ watches = {watchId.watch})

\* C20: sendLocationUpdate throws for every response that reports a failure
\* (error status or success false in the body) and returns only for a
\* response with a success status and success true in the body.
C20_ReportFailsOnEveryFailure ==
    /\ kLastOp.op \in {"startCompleted", "updateDelivered"} => ~IsFailure(kLastOp.response)
    /\ kLastOp.op \in {"startReportFailed", "updateReportFailed"} => IsFailure(kLastOp.response)

\* C25: when the report of a watch sample fails (sendLocationUpdate throws in
\* onLocationUpdate), nothing of the controller changes: isTracking, the
\* session id and the watch stay as they are, the sample stays in
\* locationHistory, no further report is sent and no message is shown.
C25_FailedUpdateReportChangesNothing ==
    [][kLastOp'.op = "updateReportFailed" =>
          /\ UNCHANGED <<isTracking, sessionId, watchId, watches, locationHistory>>
          /\ UNCHANGED <<lastReport, message, messageTimer>>
          /\ Len(updateCalls') = Len(updateCalls) - 1]_vars

\* The report of a stored sample failed at an Active controller whose latest
\* message is the success message of startTracking.
C25_Witness ==
    /\ kLastOp.op = "updateReportFailed"
    /\ isTracking
    /\ sessionId # null
    /\ watchId # null /\ watches = {watchId.watch}
    /\ locationHistory = accepted /\ accepted # <<>>
    /\ updateCalls = <<>>
    /\ message # null /\ message.type = "success"

\* C26: Unavailable delivered to onLocationError while the controller is
\* Active shows an error message to the user and leaves isTracking,
\* sessionId, watchId and locationHistory unchanged.
C26_UnavailableWarnsOnly ==
    [][(kLastOp'.op = "onLocationError" /\ kLastOp'.code = POSITION_UNAVAILABLE /\ isTracking) =>
          /\ UNCHANGED <<isTracking, sessionId, watchId, watches, locationHistory>>
          /\ message' = [text |-> "Location unavailable.", type |-> "error", display |-> "block"]
          /\ messageTimer']_vars

\* Unavailable arrived at an Active controller that holds a stored sample.
C26_Witness ==
    /\ kLastOp.op = "onLocationError"
    /\ kLastOp.code = POSITION_UNAVAILABLE
    /\ kLastOp.wasTracking
    /\ isTracking
    /\ sessionId # null
    /\ locationHistory # <<>>
    /\ message.text = "Location unavailable."

\* C28: a sample delivered by a watch while isTracking is false is dropped:
\* locationHistory is unchanged, no report is sent to the collector and the
\* display is not updated.
C28_SampleDroppedWhenNotTracking ==
    [][(kLastOp'.op = "onLocationUpdate" /\ ~isTracking) =>
          /\ ~kLastOp'.stored
          /\ UNCHANGED <<locationHistory, accepted, lastReport, updateCalls>>
          /\ UNCHANGED <<locationDisplay, lastUpdate, isTracking>>]_vars

\* A watch left registered after PermissionDenied delivered a sample to a
\* controller that is not tracking and holds a stored sample.
C28_Witness ==
    /\ kLastOp = [op |-> "onLocationUpdate", stored |-> FALSE]
    /\ ~isTracking
    /\ watches # {}
    /\ locationHistory # <<>>
    /\ lastReport # null

\* C29: in every reachable state, isTracking true implies that sessionId is
\* the non-null id returned by the latest accepted session-start, and every
\* report sent to the collector carries a non-null session id.
C29_TrackingHoldsLatestSession ==
    /\ isTracking => (sessionId # null /\ sessionId = Session(nextSessionId - 1))
    /\ lastReport # null => lastReport.session_id # null

\* C27: when stopTracking was called while a startTracking call was in
\* progress, then once both calls have completed, the later of them with its
\* endpoint answering normally, the controller is Idle: isTracking false, no
\* watch registered and no session id held.
C27_StopDuringStartEndsIdle ==
    (/\ stopDuringStart
     /\ Quiescent
     /\ \/ kLastOp.op = "startCompleted"
        \/ kLastOp.op = "stopResponse" /\ kLastOp.response = JsonResponse(TRUE, TRUE)) =>
       /\ ~isTracking
       /\ watchId = null
       /\ watches = {}
       /\ sessionId = null

\* C17: locationHistory holds at most 10 entries in every reachable state,
\* and it is the last 10 of the samples onLocationUpdate stored, in arrival
\* order: on overflow the oldest entry is evicted.
C17_HistoryIsLastTenAccepted ==
    /\ Len(locationHistory) <= maxHistoryLength
    /\ locationHistory = LastN(accepted, maxHistoryLength)

\* A 12th sample was stored: two entries were evicted, the oldest first.
C17_Witness ==
    /\ kLastOp.op = "onLocationUpdate" /\ kLastOp.stored
    /\ Len(accepted) = maxHistoryLength + 2
    /\ Len(locationHistory) = maxHistoryLength
    /\ locationHistory[1] = accepted[3]
    /\ Last(locationHistory) = Last(accepted)


(***************************************************************************)

Init == UltraInit /\ AlertsInit /\ TrailsInit /\ TrackerInit

Next == UltraNext \/ AlertsNext \/ TrailsNext \/ TrackerNext

\* The page after construction in a browser with geolocation and with a
\* container for the tracking panel. An acquisition needs geolocation; the
\* alert system and the route trails never read the controller.
RenderedInit == Init /\ Shown(startBtnDisplay)

\* One UltraAccuracy acquisition.
SpecUltra == RenderedInit /\ [][UltraNext]_vars

\* One UltraAccuracy acquisition in which every request ends in one of its
\* callbacks and every retry timer fires.
SpecUltraFair ==
    /\ RenderedInit
    /\ [][UltraNext]_vars
    /\ WF_vars(UltraSuccess \/ UltraError)
    /\ WF_vars(UltraRetry)

\* The alert system under the dashboard poll, the user and the timers.
SpecAlerts == RenderedInit /\ [][AlertsNext]_vars

\* The route trails under the dashboard poll.
SpecTrails == RenderedInit /\ [][TrailsNext]_vars

\* The tracking controller under the user, the platform and the endpoints.
SpecTracker == Init /\ [][TrackerNext]_vars

\* The tracking controller under a long run of watch samples.
SpecHistory == Init /\ [][HistoryNext]_vars

\* All parts side by side.
Spec == Init /\ [][Next]_vars

====
